---- MODULE Spec2Model ----
(***************************************************************************)
(* The history-keeping broadcast proxy of nudge (lib/makeProxyEmitter.js): *)
(* source events are formatted by per-event handlers, committed to         *)
(* messageHistory under the next serverCurrentID and emitted as 'data' on  *)
(* the proxy; a listener added for 'data' is first replayed the stored     *)
(* frames after its lastEventId.                                           *)
(*                                                                         *)
(* JavaScript values are records [type, val]; strings that are parsed      *)
(* character by character (lastEventId) are sequences of one-character     *)
(* strings.  Array index i of the code is index i + 1 of a sequence.       *)
(*                                                                         *)
(* The code is single-threaded and every handler runs to completion, so    *)
(* each operation is one step.  In Spec the listener functions are the     *)
(* gateway's: they write what they are given and return.  SpecFail adds    *)
(* commits during which a callback throws, SpecReentrant adds callbacks    *)
(* that emit a source event while they are called.                         *)
(***************************************************************************)
EXTENDS Integers, Sequences, FiniteSets, TLC

\* Bounds of the exploration.
MaxEvents == 2      \* source event occurrences in one run
MaxSubs == 2        \* listener functions created in one run

(***************************************************************************)
(* JavaScript values                                                       *)
(***************************************************************************)
Undefined == [type |-> "undefined", val |-> ""]
JSString(s) == [type |-> "string", val |-> s]
JSTrue == [type |-> "boolean", val |-> "true"]
JSFalse == [type |-> "boolean", val |-> "false"]

\* array[id]: a read outside 0 .. length-1 yields undefined.
ArrayGet(array, id) ==
    IF id >= 0 /\ id < Len(array) THEN array[id + 1] ELSE Undefined

\* A store that always uses the first slot.
ArraySet_first(array, id, value) ==
    [i \in 1..(IF Len(array) = 0 THEN 1 ELSE Len(array)) |->
        IF i = 1 THEN value ELSE array[i]]

\* array[id] = value for id >= 0: stores in place, or extends the array,
\* leaving holes (undefined) below id when id is beyond the length.
ArraySet(array, id, value) ==
    [i \in 1..(IF id + 1 > Len(array) THEN id + 1 ELSE Len(array)) |->
        IF i = id + 1 THEN value
        ELSE IF i <= Len(array) THEN array[i] ELSE Undefined]

(***************************************************************************)
(* parseInt(string, 10) and Number.isFinite                                *)
(***************************************************************************)
WhiteSpace == {" "}
Digits == {"0", "1", "2", "3", "4", "5", "6", "7", "8", "9"}
DigitValue(c) ==
    CASE c = "0" -> 0 [] c = "1" -> 1 [] c = "2" -> 2 [] c = "3" -> 3
      [] c = "4" -> 4 [] c = "5" -> 5 [] c = "6" -> 6 [] c = "7" -> 7
      [] c = "8" -> 8 [] c = "9" -> 9

RECURSIVE SkipWhiteSpace(_)
SkipWhiteSpace(s) ==
    IF s # <<>> /\ Head(s) \in WhiteSpace THEN SkipWhiteSpace(Tail(s)) ELSE s

RECURSIVE DigitPrefix(_)
DigitPrefix(s) ==
    IF s # <<>> /\ Head(s) \in Digits
    THEN <<Head(s)>> \o DigitPrefix(Tail(s))
    ELSE <<>>

RECURSIVE DecimalValue(_)
DecimalValue(d) ==
    IF d = <<>> THEN 0
    ELSE 10 * DecimalValue(SubSeq(d, 1, Len(d) - 1)) + DigitValue(d[Len(d)])

NaN == [nan |-> TRUE, n |-> 0]
Number(n) == [nan |-> FALSE, n |-> n]

\* Leading white space is skipped, one sign is read, then the longest run of
\* decimal digits; anything after it is ignored; no digit at all gives NaN.
parseInt(s) ==
    LET t == SkipWhiteSpace(s)
        signed == t # <<>> /\ Head(t) \in {"+", "-"}
        d == DigitPrefix(IF signed THEN Tail(t) ELSE t)
    IN  IF d = <<>> THEN NaN
        ELSE Number(IF signed /\ Head(t) = "-" THEN 0 - DecimalValue(d)
                    ELSE DecimalValue(d))

isFinite(x) == ~x.nan

(***************************************************************************)
(* Configuration and source events                                         *)
(***************************************************************************)
\* The eventSpecs the proxy is built with: `test: true` and a handler with
\* a custom name and a filtering preProcessor.
EventSpecs ==
    [test |-> [hasName |-> FALSE, name |-> "", hasPreProcessor |-> FALSE],
     handlerName |-> [hasName |-> TRUE, name |-> "customName",
                      hasPreProcessor |-> TRUE]]

\* Names the source emitter is made to emit, and the argument it passes
\* with each.
SourceEvents == {"test", "handlerName", "somethingElse"}
Payloads(eventName) ==
    CASE eventName = "test" -> {JSString("someData")}
      [] eventName = "handlerName" -> {JSTrue, JSFalse}
      [] eventName = "somethingElse" -> {JSString("blah")}

\* A preProcessor that calls back for every occurrence.
preProcessor_always(args) == <<args[1]>>

\* The preProcessor of the filtering handler: the values it passes to its
\* callback (none when the first argument is false).
preProcessor(args) ==
    IF args[1] = JSFalse THEN <<>> ELSE <<args[1]>>

\* JSON text of a payload.
Serialize(v) ==
    IF v.type = "string" THEN "\"" \o v.val \o "\"" ELSE v.val

FormatFrame(eventName, payload) ==
    "event: " \o eventName \o "\ndata: " \o Serialize(payload) \o "\n\n"

\* makeHandler(eventName, spec, sink): the strings one call of the handler
\* passes to its sink, in order.
makeHandler(eventName, spec, args) ==
    LET name == IF spec.hasName THEN spec.name ELSE eventName
        values == IF spec.hasPreProcessor THEN preProcessor(args)
                  ELSE <<args[1]>>
    IN  [i \in 1..Len(values) |-> FormatFrame(name, values[i])]

\* A wiring that attaches a default handler for every name emitted.
HandlersOn_any(eventName) ==
    IF eventName \in DOMAIN EventSpecs THEN <<EventSpecs[eventName]>>
    ELSE <<[hasName |-> FALSE, name |-> "", hasPreProcessor |-> FALSE]>>

\* The specs of the handlers attached to the source emitter for a name:
\* one per key of eventSpecs, none for any other name.
HandlersOn(eventName) ==
    IF eventName \in DOMAIN EventSpecs THEN <<EventSpecs[eventName]>> ELSE <<>>

(***************************************************************************)
(* State                                                                   *)
(***************************************************************************)
VARIABLES
    messageHistory,     \* array of stored frames
    serverCurrentID,    \* next ID to assign
    listeners,          \* the proxy's 'data' listeners, in registration order
    functions,          \* listener functions created so far, with their
                        \* lastEventId property; a listener is named by its
                        \* index here
    written,            \* written[l]: the values listener l was called with
    occurrences,        \* log: the source events emitted so far
    assigned,           \* log: the IDs taken by writeSavingID, in order
    replayed,           \* log: replayed[l] = number of values l was called
                        \* with while it was being added
    counterAtSub,       \* log: serverCurrentID when l was added
    closedAt,           \* log: serverCurrentID when l was removed, -1 before
    res,                \* res[l]: the calls made on the response of the
                        \* connection that created listener l
    callback            \* log: what a listener callback did, beyond
                        \* writing, in the step that led here

vars == <<messageHistory, serverCurrentID, listeners, functions, written,
          occurrences, assigned, replayed, counterAtSub, closedAt, res,
          callback>>

Range(seq) == {seq[i] : i \in DOMAIN seq}

\* lastEventId strings a client may send.
Tokens == {<<"0">>, <<"-", "1">>, <<"-", "2">>, <<"x">>, <<" ", "1", "x">>}

\* The listener functions a connection may create: with or without an own
\* lastEventId property.
NoFunction == [hasLastEventId |-> FALSE, lastEventId |-> <<>>]
ListenerFunctions ==
    {[hasLastEventId |-> FALSE, lastEventId |-> <<>>]} \cup
    {[hasLastEventId |-> TRUE, lastEventId |-> t] : t \in Tokens}

\* No callback did anything but write.
NoCallback == [l |-> 0, did |-> "wrote", commits |-> 0]

Init ==
    /\ messageHistory = <<>>
    /\ serverCurrentID = 0
    /\ listeners = <<>>
    /\ functions = <<>>
    /\ written = <<>>
    /\ occurrences = <<>>
    /\ assigned = <<>>
    /\ replayed = <<>>
    /\ counterAtSub = <<>>
    /\ closedAt = <<>>
    /\ res = <<>>
    /\ callback = NoCallback

(***************************************************************************)
(* Gateway: the per-request entry point and its listener                   *)
(***************************************************************************)
JSNumber(text) == [type |-> "number", val |-> text]
JSObject(text) == [type |-> "object", val |-> text]
ResCall(op, val) == [op |-> op, val |-> val]

\* The listener of a connection writes each value it is called with,
\* verbatim, to the response.
ResWrites(values) ==
    [i \in 1..Len(values) |-> ResCall("write", values[i])]

\* What the listeners wrote in a step: the values added to their logs.
Forward(rs, before, after) ==
    [l \in DOMAIN rs |->
        rs[l] \o ResWrites(SubSeq(after[l], Len(before[l]) + 1,
                                  Len(after[l])))]

\* An entry point that registers the listener before it primes the stream.
middleware_late(replay) ==
    <<ResCall("status", JSNumber("200")),
      ResCall("set", JSObject("text/event-stream no-cache keep-alive"))>>
    \o ResWrites(replay)
    \o <<ResCall("write", JSString("\n"))>>

\* On a new connection: status 200, the header set, one newline, then the
\* listener is registered, which writes the replay.
middleware(replay) ==
    <<ResCall("status", JSNumber("200")),
      ResCall("set", JSObject("text/event-stream no-cache keep-alive")),
      ResCall("write", JSString("\n"))>>
    \o ResWrites(replay)

(***************************************************************************)
(* Commit path: writeSavingID and write                                    *)
(***************************************************************************)
\* A counter that is read but not advanced.
NextID_stuck(id) == id

\* serverCurrentID++
NextID(id) == id + 1

\* A prefix that carries the counter after its increment.
Frame_incremented(id, string) ==
    JSString("id: " \o ToString(id + 1) \o "\n" \o string)

\* 'id: ' + id + '\n' + string
Frame(id, string) == JSString("id: " \o ToString(id) \o "\n" \o string)

\* An emit that stops after the first listener.
write_first(ls, wr, value) ==
    [l \in DOMAIN wr |->
        IF ls # <<>> /\ l = Head(ls) THEN Append(wr[l], value) ELSE wr[l]]

\* An emit that calls every function ever added, removed or not.
write_all(ls, wr, value) ==
    [l \in DOMAIN wr |-> Append(wr[l], value)]

\* proxy.emit('data', value): every listener in the array is called once
\* with the value, no other function is.
write(ls, wr, value) ==
    [l \in DOMAIN wr |->
        IF l \in Range(ls) THEN Append(wr[l], value) ELSE wr[l]]

\* A commit that stores the frame with its ID but emits the bare string.
writeSavingID_bare(st, string) ==
    LET id == st.serverCurrentID
    IN  [serverCurrentID |-> NextID(id),
         messageHistory |-> ArraySet(st.messageHistory, id, Frame(id, string)),
         written |-> write(st.listeners, st.written, JSString(string)),
         listeners |-> st.listeners,
         assigned |-> Append(st.assigned, id)]

writeSavingID(st, string) ==
    LET id == st.serverCurrentID
        frame == Frame(id, string)
    IN  [serverCurrentID |-> NextID(id),
         messageHistory |-> ArraySet(st.messageHistory, id, frame),
         written |-> write(st.listeners, st.written, frame),
         listeners |-> st.listeners,
         assigned |-> Append(st.assigned, id)]

\* The handler's sink calls, one after the other.
RECURSIVE SinkAll(_, _)
SinkAll(st, strings) ==
    IF strings = <<>> THEN st
    ELSE SinkAll(writeSavingID(st, Head(strings)), Tail(strings))

\* The handlers attached for the name run in turn on the arguments.
RECURSIVE RunHandlers(_, _, _, _)
RunHandlers(st, eventName, specs, args) ==
    IF specs = <<>> THEN st
    ELSE RunHandlers(SinkAll(st, makeHandler(eventName, Head(specs), args)),
                     eventName, Tail(specs), args)

\* emitter.emit(eventName, arg) on the source emitter.
SourceEmit(eventName, arg) ==
    /\ Len(occurrences) < MaxEvents
    /\ LET st == RunHandlers([serverCurrentID |-> serverCurrentID,
                              messageHistory |-> messageHistory,
                              written |-> written,
                              listeners |-> listeners,
                              assigned |-> assigned],
                             eventName, HandlersOn(eventName), <<arg>>)
       IN  /\ serverCurrentID' = st.serverCurrentID
           /\ messageHistory' = st.messageHistory
           /\ written' = st.written
           /\ assigned' = st.assigned
           /\ res' = Forward(res, written, st.written)
    /\ occurrences' = Append(occurrences, [name |-> eventName, arg |-> arg])
    /\ callback' = NoCallback
    /\ UNCHANGED <<listeners, functions, replayed, counterAtSub, closedAt>>

(***************************************************************************)
(* Registration: the 'newListener' handler, then the listener is added     *)
(***************************************************************************)
\* A start index that repeats the last frame seen.
StartEventId_same(listener) ==
    IF listener.hasLastEventId /\ isFinite(parseInt(listener.lastEventId))
    THEN parseInt(listener.lastEventId).n
    ELSE 0

StartEventId(listener) ==
    IF listener.hasLastEventId /\ isFinite(parseInt(listener.lastEventId))
    THEN parseInt(listener.lastEventId).n + 1
    ELSE 0

\* A replay loop that runs one index too far (id <= length).
RECURSIVE Replay_inclusive(_, _)
Replay_inclusive(id, history) ==
    IF id <= Len(history)
    THEN <<ArrayGet(history, id)>> \o Replay_inclusive(id + 1, history)
    ELSE <<>>

\* for (id = startEventId; id < messageHistory.length; ++id)
\*     listener(messageHistory[id])
RECURSIVE Replay(_, _)
Replay(id, history) ==
    IF id < Len(history)
    THEN <<ArrayGet(history, id)>> \o Replay(id + 1, history)
    ELSE <<>>

\* A replay that goes through the proxy: every function is called.
onNewListener_broadcast(wr, l, listener, history) ==
    [k \in DOMAIN wr |-> wr[k] \o Replay(StartEventId(listener), history)]

\* The 'newListener' handler for event 'data': only the listener being
\* added is called, once per stored entry from its start index on.
onNewListener(wr, l, listener, history) ==
    [wr EXCEPT ![l] = @ \o Replay(StartEventId(listener), history)]

\* A new connection: the gateway's entry point runs, and its
\* proxy.on('data', listener) for the new listener function emits
\* 'newListener' first, then the listener joins the array.
Subscribe(listener) ==
    /\ Len(functions) < MaxSubs
    /\ LET l == Len(functions) + 1
           wr == onNewListener(Append(written, <<>>), l, listener,
                               messageHistory)
       IN  /\ functions' = Append(functions, listener)
           /\ written' = wr
           /\ listeners' = Append(listeners, l)
           /\ replayed' = Append(replayed, Len(wr[l]))
           /\ counterAtSub' = Append(counterAtSub, serverCurrentID)
           /\ closedAt' = Append(closedAt, -1)
           /\ res' = Append(res, middleware(wr[l]))
    /\ callback' = NoCallback
    /\ UNCHANGED <<messageHistory, serverCurrentID, occurrences, assigned>>

\* proxy.removeListener('data', listener) when the connection closes.
RemoveListener(ls, l) == SelectSeq(ls, LAMBDA x : x # l)

\* The connection is gone with its listener: its function and its logs are
\* dropped, so anything logged for it later was delivered after the close.
Unsubscribe(l) ==
    /\ l \in DOMAIN functions
    /\ closedAt[l] = -1
    /\ listeners' = RemoveListener(listeners, l)
    /\ functions' = [functions EXCEPT ![l] = NoFunction]
    /\ written' = [written EXCEPT ![l] = <<>>]
    /\ replayed' = [replayed EXCEPT ![l] = 0]
    /\ counterAtSub' = [counterAtSub EXCEPT ![l] = 0]
    /\ closedAt' = [closedAt EXCEPT ![l] = serverCurrentID]
    /\ res' = [res EXCEPT ![l] = <<>>]
    /\ callback' = NoCallback
    /\ UNCHANGED <<messageHistory, serverCurrentID, occurrences, assigned>>

Next ==
    \/ \E eventName \in SourceEvents : \E arg \in Payloads(eventName) :
          SourceEmit(eventName, arg)
    \/ \E listener \in ListenerFunctions : Subscribe(listener)
    \/ \E l \in 1..MaxSubs : Unsubscribe(l)

Spec == Init /\ [][Next]_vars

(***************************************************************************)
(* Listener callbacks that throw                                           *)
(***************************************************************************)
\* The position of listener l in the listener array.
IndexOf(ls, l) == CHOOSE i \in DOMAIN ls : ls[i] = l

\* proxy.emit('data', value) when the callback of `thrower` throws: the
\* listeners are called in array order, the exception leaves the emit at
\* the thrower, and the listeners after it are not called.
writeThrowing(ls, wr, value, thrower) ==
    [l \in DOMAIN wr |->
        IF l \in Range(ls) /\ IndexOf(ls, l) <= IndexOf(ls, thrower)
        THEN Append(wr[l], value)
        ELSE wr[l]]

\* writeSavingID when a callback throws inside write: the counter is
\* advanced and the frame stored before write is entered.
writeSavingIDThrowing(st, string, thrower) ==
    LET id == st.serverCurrentID
        frame == Frame(id, string)
    IN  [serverCurrentID |-> NextID(id),
         messageHistory |-> ArraySet(st.messageHistory, id, frame),
         written |-> writeThrowing(st.listeners, st.written, frame, thrower),
         listeners |-> st.listeners,
         assigned |-> Append(st.assigned, id)]

\* emitter.emit(eventName, arg) when the callback of a registered listener
\* throws on the frame: the exception ends the handler at its first sink
\* call and reaches the caller of emit.
SourceEmitThrowing(eventName, arg, thrower) ==
    /\ Len(occurrences) < MaxEvents
    /\ thrower \in Range(listeners)
    /\ HandlersOn(eventName) # <<>>
    /\ makeHandler(eventName, Head(HandlersOn(eventName)), <<arg>>) # <<>>
    /\ LET strings == makeHandler(eventName, Head(HandlersOn(eventName)),
                                  <<arg>>)
           st == writeSavingIDThrowing(
                    [serverCurrentID |-> serverCurrentID,
                     messageHistory |-> messageHistory,
                     written |-> written,
                     listeners |-> listeners,
                     assigned |-> assigned],
                    Head(strings), thrower)
       IN  /\ serverCurrentID' = st.serverCurrentID
           /\ messageHistory' = st.messageHistory
           /\ written' = st.written
           /\ assigned' = st.assigned
           /\ res' = Forward(res, written, st.written)
    /\ occurrences' = Append(occurrences, [name |-> eventName, arg |-> arg])
    /\ callback' = [l |-> thrower, did |-> "threw", commits |-> 0]
    /\ UNCHANGED <<listeners, functions, replayed, counterAtSub, closedAt>>

\* The listener functions of the runs with misbehaving callbacks: what the
\* client sent as lastEventId plays no part there.
FewListenerFunctions ==
    {[hasLastEventId |-> FALSE, lastEventId |-> <<>>],
     [hasLastEventId |-> TRUE, lastEventId |-> <<"0">>]}

NextFail ==
    \/ \E eventName \in SourceEvents : \E arg \in Payloads(eventName) :
          SourceEmit(eventName, arg)
    \/ \E listener \in FewListenerFunctions : Subscribe(listener)
    \/ \E l \in 1..MaxSubs : Unsubscribe(l)
    \/ \E eventName \in SourceEvents : \E arg \in Payloads(eventName) :
          \E thrower \in 1..MaxSubs :
              SourceEmitThrowing(eventName, arg, thrower)

\* The proxy with listeners whose callbacks may throw.
SpecFail == Init /\ [][NextFail]_vars

(***************************************************************************)
(* Listener callbacks that emit a source event                             *)
(***************************************************************************)
\* What such a callback does: on its call number `at` it emits the source
\* event `name` with argument `arg`, once; it only writes on its other calls.
Reentries ==
    UNION {[at : 1..MaxEvents, name : {eventName}, arg : Payloads(eventName)] :
              eventName \in {"test", "handlerName"}}

\* The replay loop with the length read once, before the loop.
RECURSIVE ReplayLoop_cached(_, _, _, _, _, _)
ReplayLoop_cached(st, l, id, calls, cb, length) ==
    IF id < length
    THEN LET called == [st EXCEPT !.written[l] =
                            Append(@, ArrayGet(st.messageHistory, id))]
             after == IF calls + 1 = cb.at
                      THEN RunHandlers(called, cb.name, HandlersOn(cb.name),
                                       <<cb.arg>>)
                      ELSE called
         IN  ReplayLoop_cached(after, l, id + 1, calls + 1, cb, length)
    ELSE st

\* for (id = startEventId; id < messageHistory.length; ++id)
\*     listener(messageHistory[id])
\* with a callback that emits a source event: the nested commit runs to its
\* end inside the call, on the listener array without l, and the loop
\* condition reads the length again.
RECURSIVE ReplayLoop(_, _, _, _, _)
ReplayLoop(st, l, id, calls, cb) ==
    IF id < Len(st.messageHistory)
    THEN LET called == [st EXCEPT !.written[l] =
                            Append(@, ArrayGet(st.messageHistory, id))]
             after == IF calls + 1 = cb.at
                      THEN RunHandlers(called, cb.name, HandlersOn(cb.name),
                                       <<cb.arg>>)
                      ELSE called
         IN  ReplayLoop(after, l, id + 1, calls + 1, cb)
    ELSE st

onNewListenerReentrant_cached(st, l, listener, cb) ==
    ReplayLoop_cached(st, l, StartEventId(listener), 0, cb,
                      Len(st.messageHistory))

\* The 'newListener' handler for a listener with such a callback.
onNewListenerReentrant(st, l, listener, cb) ==
    ReplayLoop(st, l, StartEventId(listener), 0, cb)

\* A new connection whose callback emits a source event during its replay.
SubscribeReentrant(listener, cb) ==
    /\ Len(functions) < MaxSubs
    /\ Len(occurrences) < MaxEvents
    /\ cb.at <= Len(messageHistory) - StartEventId(listener)
    /\ LET l == Len(functions) + 1
           st == onNewListenerReentrant(
                    [serverCurrentID |-> serverCurrentID,
                     messageHistory |-> messageHistory,
                     written |-> Append(written, <<>>),
                     listeners |-> listeners,
                     assigned |-> assigned],
                    l, listener, cb)
       IN  /\ serverCurrentID' = st.serverCurrentID
           /\ messageHistory' = st.messageHistory
           /\ assigned' = st.assigned
           /\ written' = st.written
           /\ functions' = Append(functions, listener)
           /\ listeners' = Append(listeners, l)
           /\ replayed' = Append(replayed, Len(st.written[l]))
           /\ counterAtSub' = Append(counterAtSub, st.serverCurrentID)
           /\ closedAt' = Append(closedAt, -1)
           /\ res' = Append(Forward(res, written, st.written),
                            middleware(st.written[l]))
           /\ callback' = [l |-> l, did |-> "emitted in replay",
                           commits |-> st.serverCurrentID - serverCurrentID]
    /\ occurrences' = Append(occurrences, [name |-> cb.name, arg |-> cb.arg])

\* proxy.emit('data', frame) when the callback of listener l emits a source
\* event on this call: the listeners are called in array order, and the
\* nested commit, with its own emit to all listeners, runs to its end
\* inside the call of l, before the listeners after l get the frame.
RECURSIVE writeReentrant(_, _, _, _, _)
writeReentrant(st, rest, frame, l, cb) ==
    IF rest = <<>> THEN st
    ELSE LET k == Head(rest)
             called == [st EXCEPT !.written[k] = Append(@, frame)]
             after == IF k = l
                      THEN RunHandlers(called, cb.name, HandlersOn(cb.name),
                                       <<cb.arg>>)
                      ELSE called
         IN  writeReentrant(after, Tail(rest), frame, l, cb)

writeSavingIDReentrant(st, string, l, cb) ==
    LET id == st.serverCurrentID
        frame == Frame(id, string)
    IN  writeReentrant(
            [serverCurrentID |-> NextID(id),
             messageHistory |-> ArraySet(st.messageHistory, id, frame),
             written |-> st.written,
             listeners |-> st.listeners,
             assigned |-> Append(st.assigned, id)],
            st.listeners, frame, l, cb)

\* emitter.emit(eventName, arg) when the callback of the registered
\* listener l emits a source event on the frame.
SourceEmitReentrant(eventName, arg, l, cb) ==
    /\ Len(occurrences) + 1 < MaxEvents
    /\ l \in Range(listeners)
    /\ cb.at = 1
    /\ HandlersOn(eventName) # <<>>
    /\ makeHandler(eventName, Head(HandlersOn(eventName)), <<arg>>) # <<>>
    /\ LET strings == makeHandler(eventName, Head(HandlersOn(eventName)),
                                  <<arg>>)
           st == writeSavingIDReentrant(
                    [serverCurrentID |-> serverCurrentID,
                     messageHistory |-> messageHistory,
                     written |-> written,
                     listeners |-> listeners,
                     assigned |-> assigned],
                    Head(strings), l, cb)
       IN  /\ serverCurrentID' = st.serverCurrentID
           /\ messageHistory' = st.messageHistory
           /\ written' = st.written
           /\ assigned' = st.assigned
           /\ res' = Forward(res, written, st.written)
           /\ callback' = [l |-> l, did |-> "emitted in broadcast",
                           commits |->
                               st.serverCurrentID - serverCurrentID - 1]
    /\ occurrences' = occurrences \o <<[name |-> eventName, arg |-> arg],
                                       [name |-> cb.name, arg |-> cb.arg]>>
    /\ UNCHANGED <<listeners, functions, replayed, counterAtSub, closedAt>>

NextReentrant ==
    \/ \E eventName \in SourceEvents : \E arg \in Payloads(eventName) :
          SourceEmit(eventName, arg)
    \/ \E listener \in FewListenerFunctions : Subscribe(listener)
    \/ \E l \in 1..MaxSubs : Unsubscribe(l)
    \/ \E listener \in FewListenerFunctions : \E cb \in Reentries :
          SubscribeReentrant(listener, cb)
    \/ \E eventName \in SourceEvents : \E arg \in Payloads(eventName) :
          \E l \in 1..MaxSubs : \E cb \in Reentries :
              SourceEmitReentrant(eventName, arg, l, cb)

\* The proxy with listeners whose callbacks may emit a source event.
SpecReentrant == Init /\ [][NextReentrant]_vars

(***************************************************************************)
(* Notions the properties share                                           *)
(***************************************************************************)
Created == DOMAIN functions
Closed == {l \in Created : closedAt[l] >= 0}
Open == Created \ Closed

\* The last-seen ID of a listener: -1 when it has none that parses.
LastSeen(l) == StartEventId(functions[l]) - 1

\* l supplied no ID, or one between -1 and the highest ID stored when it
\* was added.
ValidLastSeen(l) == LastSeen(l) >= -1 /\ LastSeen(l) <= counterAtSub[l] - 1

\* The stored entries with IDs from .. to.
Frames(from, to) == [i \in 1..(to - from + 1) |-> messageHistory[from + i]]

\* What l was called with while it was added, and since.
ReplayPart(l) == SubSeq(written[l], 1, replayed[l])
LivePart(l) == SubSeq(written[l], replayed[l] + 1, Len(written[l]))

TypeOK ==
    /\ Len(written) = Len(functions)
    /\ Range(listeners) \subseteq Created

(***************************************************************************)
(* Properties                                                              *)
(***************************************************************************)
\* C1: the IDs taken by the commits, in commit order, are 0, 1, ..., N-1:
\* each once, no gap, no repeat, whatever registrations and removals are
\* interleaved.
C1_MonotonicIDs ==
    \A i \in 1..Len(assigned) : assigned[i] = i - 1

\* Two commits with a registration and a removal around them.
C1_Witness ==
    /\ Len(assigned) = 2
    /\ Closed # {}

\* C2: a listener added with last-seen ID j, -1 <= j <= k, when history
\* held IDs 0..k, was called during its registration with exactly the
\* frames j+1..k in increasing ID order, and with nothing more while no new
\* commit has happened.
C2_ReplayCompleteness ==
    \A l \in Open :
        ValidLastSeen(l) =>
            /\ ReplayPart(l) = Frames(LastSeen(l) + 1, counterAtSub[l] - 1)
            /\ \A i \in 1..replayed[l] : ReplayPart(l)[i] # Undefined
            /\ serverCurrentID = counterAtSub[l] => LivePart(l) = <<>>

\* A listener with lastEventId "0" added when IDs 0 and 1 were stored.
C2_Witness ==
    \E l \in Open :
        /\ functions[l] = [hasLastEventId |-> TRUE, lastEventId |-> <<"0">>]
        /\ counterAtSub[l] = 2
        /\ replayed[l] = 1

\* C3: a listener with a valid last-seen ID L (or none, L = -1) that is
\* still registered has been called with exactly the frames L+1 ..
\* serverCurrentID-1, in increasing ID order: the replay, then every later
\* commit, nothing twice and nothing left out at the boundary.
C3_ExactlyOnceInOrder ==
    \A l \in Open :
        ValidLastSeen(l) =>
            written[l] = Frames(LastSeen(l) + 1, serverCurrentID - 1)

\* A listener that got one frame by replay and the next one live.
C3_Witness ==
    \E l \in Open :
        /\ ValidLastSeen(l)
        /\ replayed[l] = 1
        /\ Len(written[l]) = 2

\* C4: a listener whose last-seen ID is negative or greater than the
\* highest stored ID is replayed all stored frames from ID 0, as if it had
\* supplied none.
C4_MalformedIsFullReplay ==
    \A l \in Open :
        LET f == functions[l]
            n == parseInt(f.lastEventId)
        IN  (f.hasLastEventId /\ isFinite(n)
                /\ (n.n < 0 \/ n.n > counterAtSub[l] - 1)) =>
                ReplayPart(l) = Frames(0, counterAtSub[l] - 1)

\* What the strings a client may send parse to, from the language's
\* definition of parseInt.
C5_Parses(token) ==
    token \in {<<"0">>, <<"-", "1">>, <<"-", "2">>, <<" ", "1", "x">>}
C5_Value(token) ==
    CASE token = <<"0">> -> 0
      [] token = <<"-", "1">> -> -1
      [] token = <<"-", "2">> -> -2
      [] token = <<" ", "1", "x">> -> 1

\* C5: a listener without lastEventId, or with one that does not parse as
\* a finite integer, is replayed from index 0 (all stored entries); one
\* whose lastEventId parses as n is replayed from index n + 1 up to the end
\* of the history; no other start is used.
C5_ReplayStart ==
    \A l \in Open :
        LET f == functions[l]
            start == IF f.hasLastEventId /\ C5_Parses(f.lastEventId)
                     THEN C5_Value(f.lastEventId) + 1
                     ELSE 0
        IN  ReplayPart(l) =
                [i \in 1..(counterAtSub[l] - start) |->
                    ArrayGet(messageHistory, start + i - 1)]

\* A listener whose lastEventId is not a number got both stored frames.
C5_Witness ==
    \E l \in Open :
        /\ functions[l] = [hasLastEventId |-> TRUE, lastEventId |-> <<"x">>]
        /\ replayed[l] = 2

\* C6: a source event whose name is not a key of eventSpecs produces no
\* frame, does not advance the counter, leaves the history alone and calls
\* no listener; a commit only happens for an event with a registered name.
C6_Isolation ==
    [][Len(occurrences') = Len(occurrences) + 1 =>
          LET o == occurrences'[Len(occurrences')]
          IN  /\ o.name \notin DOMAIN EventSpecs =>
                    /\ messageHistory' = messageHistory
                    /\ serverCurrentID' = serverCurrentID
                    /\ written' = written
                    /\ assigned' = assigned
              /\ serverCurrentID' # serverCurrentID =>
                    o.name \in DOMAIN EventSpecs]_vars

\* An unregistered event was emitted last, with a frame stored and a
\* listener registered.
C6_Witness ==
    /\ occurrences # <<>>
    /\ occurrences[Len(occurrences)].name = "somethingElse"
    /\ Len(messageHistory) = 1
    /\ Open # {}

\* The occurrences that lead to a frame: a registered name, and for the
\* handler with the filtering preProcessor a first argument other than
\* false; and the string each one passes to the sink.
C7_Accepted(o) ==
    \/ o.name = "test"
    \/ o.name = "handlerName" /\ o.arg # JSFalse
C7_Sunk(o) ==
    IF o.name = "handlerName" THEN "event: customName\ndata: true\n\n"
    ELSE "event: test\ndata: \"someData\"\n\n"

\* C7: the frames committed are exactly those of the accepted occurrences,
\* in occurrence order; an occurrence the preProcessor drops produces no
\* frame and takes no ID, so the stored IDs stay contiguous.
C7_Filtering ==
    LET accepted == SelectSeq(occurrences, C7_Accepted)
    IN  /\ Len(messageHistory) = Len(accepted)
        /\ \A i \in 1..Len(accepted) :
              messageHistory[i] =
                  JSString("id: " \o ToString(i - 1) \o "\n"
                           \o C7_Sunk(accepted[i]))

\* A dropped occurrence followed by an accepted one, which got ID 0.
C7_Witness ==
    /\ occurrences = <<[name |-> "handlerName", arg |-> JSFalse],
                       [name |-> "handlerName", arg |-> JSTrue]>>
    /\ assigned = <<0>>

\* C8: a commit calls every listener registered at that time exactly once
\* with the string it stores in the history under the new ID, and calls no
\* other function; and whatever string a listener was called with, live or
\* by replay, is a string stored in the history.
C8_LiveDelivery ==
    [][/\ serverCurrentID' # serverCurrentID =>
            LET frame == messageHistory'[serverCurrentID + 1]
            IN  /\ frame.type = "string"
                /\ \A l \in DOMAIN written :
                      written'[l] = IF l \in Range(listeners)
                                    THEN Append(written[l], frame)
                                    ELSE written[l]
       /\ \A l \in DOMAIN written' : \A i \in DOMAIN written'[l] :
              written'[l][i] # Undefined =>
                  written'[l][i] \in Range(messageHistory')]_vars

\* Two registered listeners that were both called live.
C8_Witness ==
    \E l1, l2 \in Open :
        /\ l1 # l2
        /\ LivePart(l1) # <<>>
        /\ LivePart(l2) # <<>>

\* C9: a removed listener is never called again, and its removal leaves
\* the history, the counter, and the other listeners with their order and
\* what they have received unchanged.
C9_Cancellation ==
    [][/\ \A l \in Closed : l \in Closed' /\ written'[l] = <<>>
       /\ \A l \in Open :
              l \in Closed' =>
                  /\ messageHistory' = messageHistory
                  /\ serverCurrentID' = serverCurrentID
                  /\ listeners' = SelectSeq(listeners, LAMBDA x : x # l)
                  /\ \A k \in Open \ {l} : written'[k] = written[k]]_vars

\* A commit after a removal, delivered to the listener that stayed.
C9_Witness ==
    \E l \in Closed : \E k \in Open :
        /\ serverCurrentID > closedAt[l]
        /\ LivePart(k) # <<>>

\* C10: what a registered listener has been called with is determined by
\* its own lastEventId, the point of its registration and the commits
\* alone: its replay from its own start index, then the frames committed
\* since; no registration or removal of another listener adds to it or
\* takes from it.
C10_NonInterference ==
    \A l \in Open :
        LET start == StartEventId(functions[l])
            c == counterAtSub[l]
        IN  written[l] =
                [i \in 1..(c - start) |->
                    ArrayGet(messageHistory, start + i - 1)]
                \o [i \in 1..(serverCurrentID - c) |->
                        messageHistory[c + i]]

\* A listener registered with a non-empty replay while another one was
\* registered.
C10_Witness ==
    \E l1, l2 \in Open :
        /\ l1 < l2
        /\ replayed[l2] >= 1

\* C11: on every connection the response gets the status once, then the
\* headers once, then one priming newline, and only then frames: each
\* value its listener was called with, replayed or live, in that order;
\* no second status, header set or newline follows.
C11_PrimingFirst ==
    \A l \in Open :
        /\ Len(res[l]) = 3 + Len(written[l])
        /\ res[l][1] = [op |-> "status", val |-> JSNumber("200")]
        /\ res[l][2].op = "set"
        /\ res[l][3] = [op |-> "write", val |-> JSString("\n")]
        /\ \A i \in 1..Len(written[l]) :
              /\ res[l][3 + i] = [op |-> "write", val |-> written[l][i]]
              /\ written[l][i] # JSString("\n")

\* A connection made when a frame was stored, which then got one live.
C11_Witness ==
    \E l \in Open :
        /\ counterAtSub[l] >= 1
        /\ replayed[l] >= 1
        /\ LivePart(l) # <<>>
        /\ Len(res[l]) >= 5

\* C12: the history is append-only: no step changes, removes or moves an
\* entry that is stored, and a step either leaves the history alone or adds
\* one entry at its end.
C12_AppendOnly ==
    [][/\ Len(messageHistory') \in
            {Len(messageHistory), Len(messageHistory) + 1}
       /\ \A i \in 1..Len(messageHistory) :
              messageHistory'[i] = messageHistory[i]
       /\ serverCurrentID' # serverCurrentID =>
              Len(messageHistory') = Len(messageHistory) + 1]_vars

\* Two entries stored, with a registration and a removal in the run.
C12_Witness ==
    /\ Len(messageHistory) = 2
    /\ Open # {}
    /\ Closed # {}

\* C13: after a commit during which the callback of one listener threw,
\* the frame is stored under its ID and every other registered listener,
\* also one registered after the failing one, has been called with it.
C13_FailureIsolated ==
    callback.did = "threw" =>
        /\ Len(messageHistory) = serverCurrentID
        /\ messageHistory[serverCurrentID].type = "string"
        /\ \A l \in Range(listeners) \ {callback.l} :
              /\ written[l] # <<>>
              /\ written[l][Len(written[l])] = messageHistory[serverCurrentID]

\* The strings the configured handlers pass to the sink.
C16_Bodies ==
    {"event: test\ndata: \"someData\"\n\n",
     "event: customName\ndata: true\n\n"}

\* C16: the counter equals the length of the history, every index below
\* it holds a frame, and the frame at index i starts with "id: i"; also
\* after a commit during which a callback threw.
C16_CounterMatchesHistory ==
    /\ serverCurrentID = Len(messageHistory)
    /\ \A i \in 0..(serverCurrentID - 1) :
          \E body \in C16_Bodies :
              messageHistory[i + 1] =
                  JSString("id: " \o ToString(i) \o "\n" \o body)

\* The second commit made a callback throw before a later listener was
\* called.
C16_Witness ==
    /\ callback.did = "threw"
    /\ serverCurrentID = 2
    /\ \E l \in Range(listeners) :
          l > callback.l /\ Len(written[l]) < 2 - counterAtSub[l]

\* C14: a frame committed by a listener's own callback while the listener
\* is being replayed to is neither missed nor duplicated for that
\* listener: when its registration ends it has been called with that frame
\* exactly once, last, after the stored entries from its start index on,
\* in index order.
C14_CommitDuringReplay ==
    (callback.did = "emitted in replay" /\ callback.commits = 1) =>
        LET l == callback.l
            start == StartEventId(functions[l])
            frame == messageHistory[serverCurrentID]
        IN  /\ l \in Range(listeners)
            /\ written[l] =
                  [i \in 1..(serverCurrentID - start) |->
                      ArrayGet(messageHistory, start + i - 1)]
            /\ Cardinality({i \in DOMAIN written[l] :
                               written[l][i] = frame}) = 1
            /\ written[l][Len(written[l])] = frame

\* A listener registered on one stored frame whose callback committed a
\* second one during the replay, with another listener registered.
C14_Witness ==
    /\ callback.did = "emitted in replay"
    /\ callback.commits = 1
    /\ Len(written[callback.l]) = 2
    /\ Cardinality(Range(listeners)) = 2

\* C15: when the callback of a listener commits frame n+1 while it handles
\* frame n, every listener registered after it is still called with frame n
\* before frame n+1.
C15_NestedCommitOrder ==
    (callback.did = "emitted in broadcast" /\ callback.commits = 1) =>
        \A k \in Range(listeners) :
            IndexOf(listeners, k) > IndexOf(listeners, callback.l) =>
                /\ Len(written[k]) >= 2
                /\ written[k][Len(written[k]) - 1] =
                      messageHistory[serverCurrentID - 1]
                /\ written[k][Len(written[k])] =
                      messageHistory[serverCurrentID]

\* C17: every value a listener was called with, by replay or live, is an
\* entry stored in the history; no callback is called with undefined.
C17_OnlyStoredFrames ==
    \A l \in Open : \A i \in DOMAIN written[l] :
        /\ written[l][i] # Undefined
        /\ written[l][i] \in Range(messageHistory)

====
